---------------------------- MODULE Spec2Model ----------------------------
(***************************************************************************)
(* A model of backend/app.py: the process start-up (main, the Flask        *)
(* application object, the QuestionOCRAnalyzer), the POST /answer-question *)
(* handler process_question_image step by step, and the two pure helpers   *)
(* allowed_file and the question heuristic of extract_question.            *)
(*                                                                         *)
(* Python strings that the code inspects character by character (file      *)
(* names, OCR text) are sequences of one-character strings; "" is << >>.   *)
(* Requests are handled one after another.                                 *)
(***************************************************************************)
EXTENDS Integers, Sequences, FiniteSets, TLC

VARIABLES
    pc,          \* position of the process in main / the constructors
    apiKey,      \* os.getenv('OPENAI_API_KEY'): "none", "empty" or "set"
    engines,     \* number of easyocr.Reader instances constructed so far
    reader,      \* QuestionOCRAnalyzer.reader: id of the instance held, 0 = none
    routes,      \* TRUE once /answer-question is registered
    initFailed,  \* TRUE once QuestionOCRAnalyzer.__init__ has raised
    served,      \* number of requests answered by this process
    hpc,         \* position of process_question_image for the current request
    req,         \* the current request
    trace,       \* what the handler has called or caught for this request
    usedEngine,  \* id of the Reader that readtext ran on, 0 = none
    extracted,   \* extracted_question (line 176)
    asked,       \* the argument answer_question was called with
    answer,      \* answer (line 185)
    resp,        \* the response of the current request
    input,       \* argument of a pure helper under check
    output,      \* its result
    called       \* TRUE once the helper has been applied

vars == << pc, apiKey, engines, reader, routes, initFailed, served, hpc, req,
           trace, usedEngine, extracted, asked, answer, resp,
           input, output, called >>

srvVars == << pc, apiKey, engines, reader, routes, initFailed, served, hpc, req,
              trace, usedEngine, extracted, asked, answer, resp >>

pureVars == << input, output, called >>

---------------------------------------------------------------------------
(* Bounds *)

MaxRequests == 2

MaxPieces == 4

---------------------------------------------------------------------------
(* Characters and strings *)

UpperCase == << "A", "B", "C", "D", "E", "F", "G", "H", "I", "J", "K", "L", "M",
                "N", "O", "P", "Q", "R", "S", "T", "U", "V", "W", "X", "Y", "Z" >>

LowerCase == << "a", "b", "c", "d", "e", "f", "g", "h", "i", "j", "k", "l", "m",
                "n", "o", "p", "q", "r", "s", "t", "u", "v", "w", "x", "y", "z" >>

\* str.lower() on one character
LowerChar(c) ==
    IF \E i \in 1..Len(UpperCase) : UpperCase[i] = c
    THEN LowerCase[CHOOSE i \in 1..Len(UpperCase) : UpperCase[i] = c]
    ELSE c

\* str.lower()
Lower(s) == [i \in 1..Len(s) |-> LowerChar(s[i])]

\* the characters str.split() with no argument splits on
Whitespace == { " ", "\n", "\t", "\r" }

\* a sequence of strings joined into one
RECURSIVE Concat(_)
Concat(ps) == IF ps = << >> THEN << >> ELSE Head(ps) \o Concat(Tail(ps))

\* all sequences over S of length at most n
SeqsUpTo(S, n) == UNION { [1..k -> S] : k \in 0..n }

\* separator.join(parts)
RECURSIVE Join(_, _)
Join(parts, sep) ==
    IF parts = << >> THEN << >>
    ELSE IF Len(parts) = 1 THEN parts[1]
    ELSE parts[1] \o sep \o Join(Tail(parts), sep)

\* str.split(): the maximal runs of non-whitespace characters, in order
RECURSIVE SplitAcc(_, _, _)
SplitAcc(s, cur, toks) ==
    IF s = << >>
    THEN IF cur = << >> THEN toks ELSE Append(toks, cur)
    ELSE IF Head(s) \in Whitespace
         THEN SplitAcc(Tail(s), << >>, IF cur = << >> THEN toks ELSE Append(toks, cur))
         ELSE SplitAcc(Tail(s), Append(cur, Head(s)), toks)

Split(s) == SplitAcc(s, << >>, << >>)

\* c in s, for a character c
Contains(s, c) == \E i \in 1..Len(s) : s[i] = c

\* index of the last c in s[1..i], 0 if there is none
RECURSIVE LastIndex(_, _, _)
LastIndex(s, c, i) ==
    IF i = 0 THEN 0
    ELSE IF s[i] = c THEN i
    ELSE LastIndex(s, c, i - 1)

\* s.rsplit(c, 1)
RSplit1(s, c) ==
    LET i == LastIndex(s, c, Len(s))
    IN  IF i = 0 THEN << s >>
        ELSE << SubSeq(s, 1, i - 1), SubSeq(s, i + 1, Len(s)) >>

---------------------------------------------------------------------------
(* FlaskQuestionAnswerApp.allowed_file *)

ALLOWED_EXTENSIONS ==
    { << "p", "n", "g" >>, << "j", "p", "g" >>, << "j", "p", "e", "g" >>,
      << "g", "i", "f" >>, << "b", "m", "p" >>, << "w", "e", "b", "p" >> }

\* a slip: the last piece of rsplit is taken without asking for a '.'
allowed_file_last_piece(filename) ==
    LET pieces == RSplit1(filename, ".")
    IN  Lower(pieces[Len(pieces)]) \in ALLOWED_EXTENSIONS

\* a slip: the extension is compared without .lower()
allowed_file_case_sensitive(filename) ==
    /\ Contains(filename, ".")
    /\ RSplit1(filename, ".")[2] \in ALLOWED_EXTENSIONS

allowed_file(filename) ==
    /\ Contains(filename, ".")
    /\ Lower(RSplit1(filename, ".")[2]) \in ALLOWED_EXTENSIONS

---------------------------------------------------------------------------
(* The question heuristic of QuestionOCRAnalyzer.extract_question *)

question_keywords ==
    << << "w", "h", "a", "t" >>, << "w", "h", "o" >>, << "w", "h", "e", "r", "e" >>,
       << "w", "h", "e", "n" >>, << "w", "h", "y" >>, << "h", "o", "w" >>,
       << "w", "h", "i", "c", "h" >> >>

\* a slip: every token is inspected, not only the first three
all_tokens(toks) == toks

\* toks[:3]
first_three(toks) == SubSeq(toks, 1, IF Len(toks) < 3 THEN Len(toks) ELSE 3)

is_likely_question(full_text) ==
    LET lower_text == Lower(full_text)
        head       == first_three(Split(lower_text))
    IN  \/ \E k \in 1..Len(question_keywords) :
              \E i \in 1..Len(head) : head[i] = question_keywords[k]
        \/ Contains(full_text, "?")

\* lines 64-75: the text itself if it looks like a question, "" otherwise
question_of(full_text) == IF is_likely_question(full_text) THEN full_text ELSE << >>

---------------------------------------------------------------------------
(* What the environment can hand to the process *)

\* the file names of the uploads of the server runs
Filenames ==
    { << >>,
      << "a" >>,
      << "p", "n", "g" >>,
      << "a", "." >>,
      << "a", ".", "p", "n", "g" >>,
      << "P", "H", "O", "T", "O", ".", "J", "P", "G" >>,
      << "a", ".", "p", "n", "g", ".", "e", "x", "e" >>,
      << "a", ".", "t", "a", "r", ".", "p", "n", "g" >> }

\* what reader.readtext can do: raise, or return fragments (their text fields)
OcrOutcomes ==
    { [kind |-> "raise", texts |-> << >>],
      [kind |-> "ok", texts |-> << >>],
      [kind |-> "ok", texts |-> << << "H", "i" >>, << "y", "o", "u" >> >>],
      [kind |-> "ok", texts |-> << << "W", "h", "o" >>, << "i", "s" >> >>],
      [kind |-> "ok", texts |-> << << "I", "s", " ", "i", "t", "?" >> >>] }

\* what openai.ChatCompletion.create can do: raise, or return a completion
LlmOutcomes ==
    { [kind |-> "raise", text |-> "timeout"],
      [kind |-> "raise", text |-> "rate limit"],
      [kind |-> "ok", text |-> "Paris"] }

\* line 128: app.config['MAX_CONTENT_LENGTH'], in bytes
MAX_CONTENT_LENGTH == 16 * 1024 * 1024

\* the body lengths of the requests of the server runs: small, at the cap, over it
BodyLengths == { 1024, MAX_CONTENT_LENGTH, MAX_CONTENT_LENGTH + 1 }

NoRequest == [length |-> 0, hasPart |-> FALSE, filename |-> << >>]

Requests ==
    { r \in [length : BodyLengths, hasPart : BOOLEAN, filename : Filenames] :
        ~r.hasPart => r.filename = << >> }

\* Werkzeug's test when the body is first read: content length over the cap
TooLarge(r) == r.length > MAX_CONTENT_LENGTH

NoResponse == [status |-> 0, body |-> [pending |-> TRUE]]

---------------------------------------------------------------------------
(* Start-up: main, FlaskQuestionAnswerApp.__init__, QuestionOCRAnalyzer.__init__ *)

\* a slip: the except clause of QuestionOCRAnalyzer.__init__ logs and goes on
InitErrorSwallowed == "routes"

\* lines 41-43: the except clause logs and re-raises; nothing between it and
\* the except clause of main catches, so control arrives there
InitErrorRaised == "main_except"

\* lines 124-132: the Flask object, CORS, the configuration, the upload folder
AppInit ==
    /\ pc = "main"
    /\ pc' = "reader"
    /\ UNCHANGED << apiKey, engines, reader, routes, initFailed, served, hpc, req,
                    trace, usedEngine, extracted, asked, answer, resp >>

\* line 34: easyocr.Reader(languages) returns an engine, or raises
ConstructReader ==
    /\ pc = "reader"
    /\ \E ok \in BOOLEAN :
         IF ok
         THEN /\ engines' = engines + 1
              /\ reader' = engines + 1
              /\ pc' = "apikey"
              /\ UNCHANGED initFailed
         ELSE /\ initFailed' = TRUE
              /\ pc' = InitErrorRaised
              /\ UNCHANGED << engines, reader >>
    /\ UNCHANGED << apiKey, routes, served, hpc, req,
                    trace, usedEngine, extracted, asked, answer, resp >>

\* lines 37-39: a missing or empty key raises ValueError
CheckApiKey ==
    /\ pc = "apikey"
    /\ IF apiKey \in { "none", "empty" }
       THEN /\ initFailed' = TRUE
            /\ pc' = InitErrorRaised
       ELSE /\ pc' = "routes"
            /\ UNCHANGED initFailed
    /\ UNCHANGED << apiKey, engines, reader, routes, served, hpc, req,
                    trace, usedEngine, extracted, asked, answer, resp >>

\* lines 138, 144
RegisterRoutes ==
    /\ pc = "routes"
    /\ routes' = TRUE
    /\ pc' = "run"
    /\ UNCHANGED << apiKey, engines, reader, initFailed, served, hpc, req,
                    trace, usedEngine, extracted, asked, answer, resp >>

\* lines 208-209, 200: the server starts to accept requests
Run ==
    /\ pc = "run"
    /\ pc' = "serving"
    /\ UNCHANGED << apiKey, engines, reader, routes, initFailed, served, hpc, req,
                    trace, usedEngine, extracted, asked, answer, resp >>

\* lines 210-211: main logs the failure and returns
MainExcept ==
    /\ pc = "main_except"
    /\ pc' = "exited"
    /\ UNCHANGED << apiKey, engines, reader, routes, initFailed, served, hpc, req,
                    trace, usedEngine, extracted, asked, answer, resp >>

---------------------------------------------------------------------------
(* FlaskQuestionAnswerApp.process_question_image, one request at a time *)

BadRequest(message) == [status |-> 400, body |-> [error |-> message]]

\* lines 179-182
NoQuestionResponse ==
    [status |-> 400,
     body |-> [error |-> "No clear question found in the image",
               extracted_text |-> << >>]]

\* lines 187-190
OkResponse(question, ans) ==
    [status |-> 200, body |-> [extracted_question |-> question, answer |-> ans]]

\* lines 192-194
InternalError == [status |-> 500, body |-> [error |-> "Internal server error"]]

\* the handler returns r: the request is answered
Return(r) ==
    /\ resp' = r
    /\ hpc' = "done"
    /\ served' = served + 1

\* the handler's except clause, lines 192-194, entered by the exception `raised`
CatchAll(raised) ==
    /\ trace' = trace \o << raised, "catch_all" >>
    /\ Return(InternalError)

\* Flask dispatches a POST /answer-question to process_question_image (line 144).
\* MAX_CONTENT_LENGTH (line 128) is not looked at here: Werkzeug compares it to
\* the body's length when the body is first read, which is the request.files of
\* line 159.
Arrive ==
    /\ pc = "serving"
    /\ routes
    /\ hpc \in { "idle", "done" }
    /\ served < MaxRequests
    /\ req' \in Requests
    /\ hpc' = "files"
    /\ trace' = << >>
    /\ usedEngine' = 0
    /\ extracted' = << >>
    /\ asked' = << >>
    /\ answer' = << >>
    /\ resp' = NoResponse
    /\ UNCHANGED << pc, apiKey, engines, reader, routes, initFailed, served >>

\* lines 159-160: request.files parses the body, and raises
\* RequestEntityTooLarge (an Exception) for a body over the cap
CheckFiles ==
    /\ hpc = "files"
    /\ IF TooLarge(req)
       THEN CatchAll("files_raised")
       ELSE /\ trace' = Append(trace, "files")
            /\ IF ~req.hasPart
               THEN Return(BadRequest("No image file provided"))
               ELSE /\ hpc' = "name"
                    /\ UNCHANGED << resp, served >>
    /\ UNCHANGED << pc, apiKey, engines, reader, routes, initFailed, req,
                    usedEngine, extracted, asked, answer >>

\* lines 162-166
CheckName ==
    /\ hpc = "name"
    /\ trace' = Append(trace, "name")
    /\ IF req.filename = << >>
       THEN Return(BadRequest("No selected file"))
       ELSE /\ hpc' = "ext"
            /\ UNCHANGED << resp, served >>
    /\ UNCHANGED << pc, apiKey, engines, reader, routes, initFailed, req,
                    usedEngine, extracted, asked, answer >>

\* lines 168-169
CheckExtension ==
    /\ hpc = "ext"
    /\ trace' = Append(trace, "ext")
    /\ IF ~allowed_file(req.filename)
       THEN Return(BadRequest("Invalid file type"))
       ELSE /\ hpc' = "decode"
            /\ UNCHANGED << resp, served >>
    /\ UNCHANGED << pc, apiKey, engines, reader, routes, initFailed, req,
                    usedEngine, extracted, asked, answer >>

\* lines 172-173: Image.open / np.array decode the upload, or raise
Decode ==
    /\ hpc = "decode"
    /\ \E ok \in BOOLEAN :
         IF ok
         THEN /\ trace' = Append(trace, "decode")
              /\ hpc' = "extract"
              /\ UNCHANGED << resp, served >>
         ELSE CatchAll("decode_raised")
    /\ UNCHANGED << pc, apiKey, engines, reader, routes, initFailed, req,
                    usedEngine, extracted, asked, answer >>

---------------------------------------------------------------------------
(* QuestionOCRAnalyzer.extract_question and answer_question: what a call     *)
(* gives back to the handler, a value returned or an exception raised        *)

Returned(v) == [raised |-> FALSE, value |-> v]

Propagated == [raised |-> TRUE, value |-> << >>]

\* a slip: the except clause of extract_question re-raises
extract_reraise == Propagated

\* lines 77-79: the except clause logs and returns ""
extract_except == Returned(<< >>)

\* lines 55-79, given what readtext did
extract_question(ocr) ==
    IF ocr.kind = "raise"
    THEN extract_except
    ELSE Returned(question_of(Join(ocr.texts, << "\n" >>)))

\* a slip: the except clause of answer_question re-raises
answer_reraise(message) == Propagated

\* lines 115-117: the except clause logs and returns the apology with str(e)
answer_except(message) ==
    Returned(<< "Sorry, I couldn't generate an answer. Error: ", message >>)

\* lines 91-117, given what ChatCompletion.create did
answer_question(llm) ==
    IF llm.kind = "raise"
    THEN answer_except(llm.text)
    ELSE Returned(<< llm.text >>)

\* a slip: a Reader is constructed for the request
ReadTextOnNewReader ==
    /\ engines' = engines + 1
    /\ reader' = engines + 1
    /\ usedEngine' = engines + 1

\* line 57: readtext runs on the analyzer's own reader
ReadText ==
    /\ usedEngine' = reader
    /\ UNCHANGED << engines, reader >>

\* a slip: the handler goes on with an empty question
never_empty(question) == FALSE

\* line 178: not extracted_question
no_question(question) == question = << >>

\* line 176 and lines 55-79
ExtractQuestion ==
    /\ hpc = "extract"
    /\ ReadText
    /\ \E ocr \in OcrOutcomes :
         LET r  == extract_question(ocr)
             ev == IF ocr.kind = "raise"
                   THEN << "readtext", "readtext_raised" >>
                   ELSE << "readtext", "heuristic" >>
         IN  IF r.raised
             THEN /\ trace' = trace \o ev \o << "catch_all" >>
                  /\ Return(InternalError)
                  /\ UNCHANGED extracted
             ELSE /\ trace' = trace \o ev \o
                        (IF ocr.kind = "raise" THEN << "extract_except" >> ELSE << >>)
                  /\ extracted' = r.value
                  /\ hpc' = "check"
                  /\ UNCHANGED << resp, served >>
    /\ UNCHANGED << pc, apiKey, routes, initFailed, req, asked, answer >>

\* lines 178-182
CheckQuestion ==
    /\ hpc = "check"
    /\ IF no_question(extracted)
       THEN Return(NoQuestionResponse)
       ELSE /\ hpc' = "answer"
            /\ UNCHANGED << resp, served >>
    /\ UNCHANGED << pc, apiKey, engines, reader, routes, initFailed, req,
                    trace, usedEngine, extracted, asked, answer >>

\* line 185 and lines 91-117
AnswerQuestion ==
    /\ hpc = "answer"
    /\ asked' = extracted
    /\ \E llm \in LlmOutcomes :
         LET r  == answer_question(llm)
             ev == IF llm.kind = "raise"
                   THEN << "create", "create_raised" >>
                   ELSE << "create" >>
         IN  IF r.raised
             THEN /\ trace' = trace \o ev \o << "catch_all" >>
                  /\ Return(InternalError)
                  /\ UNCHANGED answer
             ELSE /\ trace' = trace \o ev \o
                        (IF llm.kind = "raise" THEN << "answer_except" >> ELSE << >>)
                  /\ answer' = r.value
                  /\ hpc' = "respond"
                  /\ UNCHANGED << resp, served >>
    /\ UNCHANGED << pc, apiKey, engines, reader, routes, initFailed, req,
                    usedEngine, extracted >>

\* lines 187-190
Respond ==
    /\ hpc = "respond"
    /\ Return(OkResponse(extracted, answer))
    /\ UNCHANGED << pc, apiKey, engines, reader, routes, initFailed, req,
                    trace, usedEngine, extracted, asked, answer >>

---------------------------------------------------------------------------
(* The process *)

Init ==
    /\ pc = "main"
    /\ apiKey \in { "none", "empty", "set" }
    /\ engines = 0
    /\ reader = 0
    /\ routes = FALSE
    /\ initFailed = FALSE
    /\ served = 0
    /\ hpc = "idle"
    /\ req = NoRequest
    /\ trace = << >>
    /\ usedEngine = 0
    /\ extracted = << >>
    /\ asked = << >>
    /\ answer = << >>
    /\ resp = NoResponse
    /\ input = << >>
    /\ output = << >>
    /\ called = FALSE

Next ==
    \/ AppInit /\ UNCHANGED pureVars
    \/ ConstructReader /\ UNCHANGED pureVars
    \/ CheckApiKey /\ UNCHANGED pureVars
    \/ RegisterRoutes /\ UNCHANGED pureVars
    \/ Run /\ UNCHANGED pureVars
    \/ MainExcept /\ UNCHANGED pureVars
    \/ Arrive /\ UNCHANGED pureVars
    \/ CheckFiles /\ UNCHANGED pureVars
    \/ CheckName /\ UNCHANGED pureVars
    \/ CheckExtension /\ UNCHANGED pureVars
    \/ Decode /\ UNCHANGED pureVars
    \/ ExtractQuestion /\ UNCHANGED pureVars
    \/ CheckQuestion /\ UNCHANGED pureVars
    \/ AnswerQuestion /\ UNCHANGED pureVars
    \/ Respond /\ UNCHANGED pureVars

Spec == Init /\ [][Next]_vars

---------------------------------------------------------------------------
(* The two pure helpers applied to bounded inputs *)

\* pieces the checked OCR texts are built from
TextPieces ==
    { << "w", "h", "o" >>, << "W", "h", "o" >>, << "h", "o", "w" >>, << "s" >>,
      << "x", " " >>, << " " >>, << "\n" >>, << "?" >> }

\* pieces the checked file names are built from
NamePieces ==
    { << "a" >>, << "." >>, << "p", "n", "g" >>, << "J", "P", "G" >>,
      << "e", "x", "e" >>, << "g" >> }

Texts == { Concat(ps) : ps \in SeqsUpTo(TextPieces, MaxPieces) }

Names == { Concat(ps) : ps \in SeqsUpTo(NamePieces, MaxPieces) }

\* the server part of the state while a helper is checked on its own
ServerAtRest ==
    /\ pc = "main"
    /\ apiKey = "set"
    /\ engines = 0
    /\ reader = 0
    /\ routes = FALSE
    /\ initFailed = FALSE
    /\ served = 0
    /\ hpc = "idle"
    /\ req = NoRequest
    /\ trace = << >>
    /\ usedEngine = 0
    /\ extracted = << >>
    /\ asked = << >>
    /\ answer = << >>
    /\ resp = NoResponse

InitHeuristic ==
    /\ ServerAtRest
    /\ input \in Texts
    /\ output = << >>
    /\ called = FALSE

\* lines 64-75 applied to full_text = input
ApplyHeuristic ==
    /\ ~called
    /\ output' = question_of(input)
    /\ called' = TRUE
    /\ UNCHANGED input
    /\ UNCHANGED srvVars

SpecHeuristic == InitHeuristic /\ [][ApplyHeuristic]_vars

InitAllowed ==
    /\ ServerAtRest
    /\ input \in Names
    /\ output = FALSE
    /\ called = FALSE

\* line 151 applied to filename = input
ApplyAllowedFile ==
    /\ ~called
    /\ output' = allowed_file(input)
    /\ called' = TRUE
    /\ UNCHANGED input
    /\ UNCHANGED srvVars

SpecAllowed == InitAllowed /\ [][ApplyAllowedFile]_vars

---------------------------------------------------------------------------
(* Properties *)

InTrace(e) == \E i \in 1..Len(trace) : trace[i] = e

Count(e) == Cardinality({ i \in 1..Len(trace) : trace[i] = e })

Done == hpc = "done"

\* the extensions the specification lists
SpecExtensions ==
    { << "p", "n", "g" >>, << "j", "p", "g" >>, << "j", "p", "e", "g" >>,
      << "g", "i", "f" >>, << "b", "m", "p" >>, << "w", "e", "b", "p" >> }

\* f has a '.', and what follows its last '.', lower-cased, is a listed extension
SpecAccepts(f) ==
    \E i \in 1..Len(f) :
        /\ f[i] = "."
        /\ \A k \in (i + 1)..Len(f) : f[k] # "."
        /\ Lower(SubSeq(f, i + 1, Len(f))) \in SpecExtensions

\* the keywords the specification lists
SpecKeywords ==
    { << "w", "h", "a", "t" >>, << "w", "h", "o" >>, << "w", "h", "e", "r", "e" >>,
      << "w", "h", "e", "n" >>, << "w", "h", "y" >>, << "h", "o", "w" >>,
      << "w", "h", "i", "c", "h" >> }

\* a whitespace-delimited token of t starts at position i
TokenStart(t, i) == t[i] \notin Whitespace /\ (i = 1 \/ t[i - 1] \in Whitespace)

\* t[i..j] is a whitespace-delimited token of t
IsToken(t, i, j) ==
    /\ TokenStart(t, i)
    /\ \A k \in i..j : t[k] \notin Whitespace
    /\ (j = Len(t) \/ t[j + 1] \in Whitespace)

\* the token starting at i is the n-th token of t
TokenRank(t, i) == Cardinality({ p \in 1..i : TokenStart(t, p) })

\* one of the first three tokens of lower-cased t is a keyword, or t has a '?'
SpecIsQuestion(t) ==
    \/ \E i \in 1..Len(t) : \E j \in i..Len(t) :
          /\ IsToken(t, i, j)
          /\ TokenRank(t, i) <= 3
          /\ Lower(SubSeq(t, i, j)) \in SpecKeywords
    \/ \E k \in 1..Len(t) : t[k] = "?"

\* C1: the upload checks decide the response in the order part, file name,
\* extension: a request without the image part is answered 400 "No image file
\* provided", one with an empty file name 400 "No selected file", one with a
\* file name whose extension is not allowed 400 "Invalid file type".
C1_UploadChecksDecide ==
    Done =>
        /\ ~req.hasPart => resp = BadRequest("No image file provided")
        /\ req.hasPart /\ req.filename = << >> => resp = BadRequest("No selected file")
        /\ req.hasPart /\ req.filename # << >> /\ ~SpecAccepts(req.filename)
              => resp = BadRequest("Invalid file type")

\* the same for the requests whose body is within the cap only (this part holds)
C1_WithinCap == ~TooLarge(req) => C1_UploadChecksDecide

\* C2 as stated: whenever an exception was raised while a request was handled
\* (reading the upload, decoding, text recognition, the LLM call), the response
\* is 500 "Internal server error".
C2_AnyExceptionIs500 ==
    Done /\ ( \/ InTrace("files_raised") \/ InTrace("decode_raised")
              \/ InTrace("readtext_raised") \/ InTrace("create_raised") )
        => resp = InternalError

\* C2 amended: an exception raised by reading the upload or by decoding the
\* image is answered 500 "Internal server error", and only those are; an
\* exception of the OCR engine is answered 400 "No clear question found in the
\* image"; an exception of the LLM call is answered 200.
C2_ExceptionMapping ==
    Done =>
        /\ InTrace("files_raised") \/ InTrace("decode_raised") => resp = InternalError
        /\ resp.status = 500 =>
              /\ resp = InternalError
              /\ InTrace("files_raised") \/ InTrace("decode_raised")
        /\ InTrace("readtext_raised") => resp = NoQuestionResponse
        /\ InTrace("create_raised") => resp.status = 200

C2_Witness == Done /\ InTrace("readtext_raised") /\ resp = NoQuestionResponse

\* C3: when the LLM call fails for an extracted question, nothing is raised to
\* the handler: the answer is the apology with the error's message, and the
\* response is 200 with the extracted question and that answer.
C3_LlmFailureIs200 ==
    InTrace("create_raised") =>
        /\ ~InTrace("catch_all")
        /\ InTrace("answer_except")
        /\ \E llm \in LlmOutcomes :
              /\ llm.kind = "raise"
              /\ answer = << "Sorry, I couldn't generate an answer. Error: ", llm.text >>
        /\ extracted # << >>
        /\ Done => resp = [status |-> 200,
                           body |-> [extracted_question |-> extracted, answer |-> answer]]

C3_Witness == Done /\ InTrace("create_raised") /\ resp.status = 200

\* C4: a request whose body is over the 16 MiB cap never reaches the handler:
\* none of its steps runs for it, its except clause included, and the response
\* is not the handler's.
C4_OversizeNeverReachesHandler ==
    req.length > 16 * 1024 * 1024 => trace = << >> /\ resp # InternalError

\* C5: the heuristic returns the text unchanged if one of the first three
\* whitespace-delimited tokens of the lower-cased text is a keyword or the text
\* has a '?', and the empty string otherwise.
C5_HeuristicIff ==
    called => output = (IF SpecIsQuestion(input) THEN input ELSE << >>)

\* a keyword as fourth token only: not a question
C5_Witness ==
    /\ called
    /\ input = << "x", " ", "x", " ", "x", " ", "w", "h", "o" >>
    /\ output = << >>

\* C6: allowed_file accepts a file name if and only if it has a '.' and what
\* follows its last '.', lower-cased, is one of png, jpg, jpeg, gif, bmp, webp.
C6_AllowedIff == called => output = SpecAccepts(input)

\* an upper-case extension is accepted
C6_Witness == called /\ input = << "a", ".", "J", "P", "G" >> /\ output = TRUE

\* C7 as stated: every request with an image part whose file name has no '.'
\* is answered 400 "Invalid file type".
C7_NoDotIsInvalidType ==
    Done /\ req.hasPart /\ ~Contains(req.filename, ".")
        => resp = BadRequest("Invalid file type")

\* C7 amended: a request with an image part whose file name has no '.' is
\* answered 400 "Invalid file type" if the name is not empty and 400 "No
\* selected file" if it is empty; when reading the upload raises, the answer
\* is the 500 of the handler's except clause instead.
C7_NoDotNonEmpty ==
    Done /\ req.hasPart /\ ~Contains(req.filename, ".") =>
        IF InTrace("files_raised") THEN resp = InternalError
        ELSE IF req.filename = << >> THEN resp = BadRequest("No selected file")
        ELSE resp = BadRequest("Invalid file type")

C7_Witness ==
    /\ Done
    /\ req.hasPart
    /\ req.filename = << "p", "n", "g" >>
    /\ resp = BadRequest("Invalid file type")

\* C8: once the process serves, exactly one OCR engine has been constructed,
\* it was constructed before the first request, no request constructs another,
\* and text recognition always runs on it.
C8_EngineConstructedOnce ==
    /\ pc = "serving" \/ hpc # "idle" \/ served > 0 => engines = 1 /\ reader = 1
    /\ usedEngine \in { 0, 1 }
    /\ InTrace("readtext") => usedEngine = 1

C8_Witness == served > 1 /\ Done /\ InTrace("readtext") /\ usedEngine = 1 /\ engines = 1

\* C9: once the construction of QuestionOCRAnalyzer has failed, main's except
\* clause is where the process goes: no route is registered, run is not
\* reached and no request is handled.
C9_FailedInitNeverServes ==
    initFailed =>
        /\ pc \in { "main_except", "exited" }
        /\ ~routes
        /\ hpc = "idle"
        /\ served = 0
        /\ resp = NoResponse

C9_Witness == initFailed /\ pc = "exited" /\ engines = 1 /\ apiKey = "empty"

\* an upload check fails for the request
UploadRejected(r) == ~r.hasPart \/ r.filename = << >> \/ ~SpecAccepts(r.filename)

\* the first position of event e in the trace
FirstIndex(e) == CHOOSE i \in 1..Len(trace) : trace[i] = e /\ \A k \in 1..(i - 1) : trace[k] # e

\* C10: in one request text recognition runs at most once and the LLM is
\* called at most once, after text recognition and the heuristic, with the
\* non-empty text the heuristic returned; a request that fails an upload check
\* reaches neither; an empty result of extraction is answered 400 "No clear
\* question found in the image" with extracted_text "" and without an LLM call.
C10_LinearPipeline ==
    /\ Count("readtext") <= 1
    /\ Count("create") <= 1
    /\ InTrace("create") =>
          /\ InTrace("heuristic")
          /\ FirstIndex("readtext") < FirstIndex("heuristic")
          /\ FirstIndex("heuristic") < FirstIndex("create")
          /\ asked # << >>
          /\ asked = extracted
    /\ UploadRejected(req) => ~InTrace("readtext") /\ ~InTrace("create")
    /\ Done /\ InTrace("readtext") /\ extracted = << >> =>
          /\ ~InTrace("create")
          /\ resp = [status |-> 400,
                     body |-> [error |-> "No clear question found in the image",
                               extracted_text |-> << >>]]

C10_Witness ==
    /\ Done
    /\ InTrace("heuristic")
    /\ extracted = << >>
    /\ ~InTrace("create")
    /\ resp.status = 400

=============================================================================
